---- MODULE Spec2Model ----
(***************************************************************************)
(* Model of getFromSahamyab.py: the scraping driver scrape_sahamyab, its   *)
(* collaborators refresh_token, update_config_refresh_token and load_data, *)
(* the CSV destination it appends to and the two endpoints it talks to.    *)
(*                                                                         *)
(* One behaviour is a sequence of runs of main() on the same config.json   *)
(* and the same destination file.  The position inside scrape_sahamyab is  *)
(* pc:                                                                     *)
(*   "auth"     refresh_token() of line 204 is in flight                   *)
(*   "save0"    update_config_refresh_token() of line 205 is about to run  *)
(*   "open"     lines 210-231: isfile / read_csv / open / header           *)
(*   "loop"     the while test of line 234                                 *)
(*   "fetch"    load_data() of line 240 is in flight                       *)
(*   "reauth"   refresh_token() of line 246 is in flight                   *)
(*   "save1"    update_config_refresh_token() of line 247 is about to run  *)
(*   "write"    the for loop of lines 262-271, at items[idx]               *)
(*   "returned" scrape_sahamyab has returned                               *)
(*   "crashed"  an exception left scrape_sahamyab (the process died)       *)
(***************************************************************************)
EXTENDS Integers, Sequences, FiniteSets, TLC

\* ----------------------------------------------------------------- bounds
\* Records the content endpoint holds for the symbol, numbered 1 (oldest)
\* to NumRecs (newest).
NumRecs == 3
\* Largest number of records the endpoint puts in one page.
PageSize == 2
\* error_thold is drawn from 1..MaxThold.
MaxThold == 2
\* Runs of main() in one behaviour.
MaxRuns == 2
\* Credentials the authentication endpoint issues in one behaviour.
MaxTokens == 2

\* ------------------------------------------------------ program constants
\* The distance between the reauthentication threshold and the fatal cap.
FatalMargin == 5

\* --------------------------------------------------------------- the data
\* dt.datetime.now() of line 195: later than every record of the endpoint.
Now == NumRecs + 1
Symbol == "X"

\* The JSON type of an item's "id": a number, or a string of digits.
IdKinds == {"number", "digits"}

VARIABLES
    \* locals of scrape_sahamyab
    pc, last_id, date, page, token_type, access_token, ref_token,
    error_count, o_mode, repeat, items, idx,
    \* configuration handed over by main()
    error_thold, start_date,
    \* config.json's ref_token, and the destination file
    cfg_ref, file_exists, file, buf, is_open,
    \* the endpoints
    id_kind, issued, req,
    \* what lines 286-290 logged
    report,
    \* history: the run, how it ended, every row handed to writer.writerow,
    \* the refresh calls made since error_count was last 0, and the ids of
    \* the items of every page the run took for new content
    run, how, appended, streak_reauths, fetched

vars == << pc, last_id, date, page, token_type, access_token, ref_token,
           error_count, o_mode, repeat, items, idx, error_thold, start_date,
           cfg_ref, file_exists, file, buf, is_open, id_kind, issued, req,
           report, run, how, appended, streak_reauths, fetched >>

locals == << last_id, date, page, token_type, access_token, ref_token,
             error_count, o_mode, repeat, items, idx >>
config == << error_thold, start_date, id_kind >>
store == << file_exists, file, buf, is_open, appended >>

\* ------------------------------------------------------------ identifiers
\* A Python value holding a record id: its type and the record it names.
\* '' (line 194) is the string naming no record.
EmptyId == [ty |-> "str", n |-> 0]

\* The id of record n as json() delivers it (line 167).
WireId(n) == [ty |-> IF id_kind = "number" THEN "int" ELSE "str", n |-> n]

\* str(l_id) of line 151.
Str(v) == [ty |-> "str", n |-> v.n]

\* The text csv.DictWriter writes for an id (line 271): str() of the value.
CsvText(v) == v.n

\* Faulty variant of ReadCsvLastId: the first row instead of the last.
ReadCsvFirstId(rows) == [ty |-> "int", n |-> rows[1].id]

\* df['id'].iloc[-1] of lines 215-216: read_csv infers int64 for a column
\* whose texts are all numbers.
ReadCsvLastId(rows) == [ty |-> "int", n |-> rows[Len(rows)].id]

\* ----------------------------------------------------------- load_data
\* The request body of line 151.
RequestBody(n_page, l_id) ==
    IF n_page < 1 THEN [tag |-> Symbol, id |-> << >>]
                  ELSE [tag |-> Symbol, id |-> << Str(l_id) >>]

\* to_datetime(item['sendTime']) of line 265 for a well-formed record: the
\* endpoint lists the records newest first, and record n was sent at time n.
SendTime(v) == v.n

\* The records top, top-1, .., top-k+1 as items, newest first.
PageFrom(top, k) == [i \in 1 .. k |-> WireId(top - i + 1)]

Min(a, b) == IF a < b THEN a ELSE b

\* The "items" a 200 answer of the content endpoint can carry (line 167):
\* without an id the newest records; with the id of record x either records
\* strictly older than x, or (nothing new yet) a page that ends with x;
\* or no items at all.
ServerPages(body) ==
    IF body.id = << >>
    THEN { PageFrom(NumRecs, k) : k \in 1 .. PageSize } \cup { << >> }
    ELSE LET x == body.id[1].n IN
         { PageFrom(x - 1, k) : k \in 1 .. Min(PageSize, x - 1) }
         \cup { PageFrom(x + j, j + 1) : j \in 0 .. Min(PageSize - 1, NumRecs - x) }
         \cup { << >> }

\* ------------------------------------------------------------------ Init
NoRequest == [token_type |-> 0, access_token |-> 0,
              body |-> [tag |-> "", id |-> << >>]]

Init ==
    /\ pc = "auth"
    /\ last_id = EmptyId
    /\ date = Now
    /\ page = 0
    /\ token_type = 0
    /\ access_token = 0
    /\ ref_token = 0
    /\ error_count = 0
    /\ o_mode = ""
    /\ repeat = FALSE
    /\ items = << >>
    /\ idx = 0
    /\ error_thold \in 1 .. MaxThold
    /\ start_date \in 0 .. NumRecs
    /\ cfg_ref = 0
    /\ file_exists = FALSE
    /\ file = << >>
    /\ buf = << >>
    /\ is_open = FALSE
    /\ id_kind \in IdKinds
    /\ issued = 0
    /\ req = NoRequest
    /\ report = "none"
    /\ run = 1
    /\ how = "none"
    /\ appended = << >>
    /\ streak_reauths = 0
    /\ fetched = << >>

\* ------------------------------------------------- refresh_token (81-111)
\* Faulty variant of AssignCredential: the access token is not replaced.
AssignCredentialStale(cur, res) == << res[1], cur[2], res[3] >>

\* The tuple assignment of lines 204 and 246: the three names are bound to
\* the three values refresh_token returned.
AssignCredential(cur, res) == res

\* The credential the authentication endpoint issues next (line 109).
IssuedCredential == << issued + 1, issued + 1, issued + 1 >>

\* ---------------------------------------------- the finally block (281-284)
\* Faulty variant of CloseFile: the buffer is dropped.
CloseFileNoFlush(f, b) == f

\* _file.close() of line 282: what is buffered reaches the file.
CloseFile(f, b) == f \o b

\* Faulty variant of FinallyReturns: the finally block has no return.
FinallyFallsThrough == FALSE

\* The return of line 284 ends the function inside the finally block.
FinallyReturns == TRUE

\* Lines 287-290: the report after the try statement.
TerminalReport(ec, th) == IF ec >= th THEN "error" ELSE "clean"

\* Leaving the try statement of lines 223-284, by any way.
Close(reason) ==
    /\ file' = CloseFile(file, buf)
    /\ buf' = << >>
    /\ is_open' = FALSE
    /\ pc' = IF reason = "exception" /\ ~FinallyReturns
             THEN "crashed"   \* the pending exception is raised again
             ELSE "returned"
    /\ how' = reason
    /\ report' = IF FinallyReturns \/ reason = "exception" THEN report
                 ELSE TerminalReport(error_count', error_thold)
    /\ UNCHANGED << file_exists, appended >>

\* The positions inside the try statement.
InTry == {"loop", "fetch", "reauth", "save1", "write"}

\* ------------------------------------------------------- lines 202-208
\* refresh_token answers 200 with a new credential.
AuthOk ==
    /\ pc = "auth"
    /\ issued < MaxTokens
    /\ LET c == AssignCredential(<< token_type, access_token, ref_token >>,
                                 IssuedCredential) IN
         /\ token_type' = c[1]
         /\ access_token' = c[2]
         /\ ref_token' = c[3]
    /\ issued' = issued + 1
    /\ pc' = "save0"
    /\ UNCHANGED << last_id, date, page, error_count, o_mode, repeat, items,
                    idx, config, cfg_ref, store, req, report, run, how,
                    streak_reauths, fetched >>

\* Faulty variant of AuthFail: the except logs and the function goes on.
AuthFailGoesOn ==
    /\ pc = "auth"
    /\ pc' = "save0"
    /\ how' = "auth_failed"
    /\ UNCHANGED << locals, config, cfg_ref, store, issued, req, report, run,
                    streak_reauths, fetched >>

\* refresh_token raises: the except of line 206 returns.
AuthFail ==
    /\ pc = "auth"
    /\ pc' = "returned"
    /\ how' = "auth_failed"
    /\ UNCHANGED << locals, config, cfg_ref, store, issued, req, report, run,
                    streak_reauths, fetched >>

\* -------------------------------- update_config_refresh_token (114-130)
\* The read-modify-write of config.json succeeds.
SaveOk ==
    /\ pc \in {"save0", "save1"}
    /\ cfg_ref' = ref_token
    /\ pc' = IF pc = "save0" THEN "open" ELSE "loop"
    /\ UNCHANGED << locals, config, store, issued, req, report, run, how,
                    streak_reauths, fetched >>

\* It raises; the except of line 129 logs and goes on.
SaveFail ==
    /\ pc \in {"save0", "save1"}
    /\ pc' = IF pc = "save0" THEN "open" ELSE "loop"
    /\ UNCHANGED << locals, config, cfg_ref, store, issued, req, report, run,
                    how, streak_reauths, fetched >>

\* ------------------------------------------------------- lines 210-231
OpenStore ==
    /\ pc = "open"
    /\ IF file_exists /\ file = << >>
       THEN \* df['id'].iloc[-1] on no rows raises, outside the try statement
            /\ pc' = "crashed"
            /\ how' = "exception"
            /\ o_mode' = "a"
            /\ UNCHANGED << last_id, page, repeat, store >>
       ELSE /\ pc' = "loop"
            /\ how' = how
            /\ repeat' = FALSE
            /\ is_open' = TRUE
            /\ IF file_exists
               THEN /\ o_mode' = "a"
                    /\ last_id' = ReadCsvLastId(file)
                    /\ page' = page + 1
                    /\ UNCHANGED << file_exists, file >>
               ELSE /\ o_mode' = "w"
                    /\ file_exists' = TRUE
                    /\ file' = << >>
                    /\ UNCHANGED << last_id, page >>
            /\ UNCHANGED << buf, appended >>
    /\ UNCHANGED << date, token_type, access_token, ref_token, error_count,
                    items, idx, config, cfg_ref, issued, req, report, run,
                    streak_reauths, fetched >>

\* ------------------------------------------------------- lines 234-240
\* Faulty variant of Continue: the boundary itself still continues.
ContinueAtBoundary(d, sd) == d >= sd

\* The while condition of line 234.
Continue(d, sd) == d > sd

LoopTest ==
    /\ pc = "loop"
    /\ UNCHANGED << locals, config, cfg_ref, issued, run, streak_reauths, fetched >>
    /\ IF Continue(date, start_date)
       THEN /\ req' = [token_type |-> token_type, access_token |-> access_token,
                       body |-> RequestBody(page, last_id)]
            /\ pc' = "fetch"
            /\ UNCHANGED << store, how, report >>
       ELSE /\ Close("boundary")
            /\ req' = req

\* ------------------------------------------------------- lines 241-253
\* Faulty variant of AtThreshold: every failure from the threshold on.
AtOrOverThreshold(ec, th) == ec >= th

\* The reauthentication test of line 244.
AtThreshold(ec, th) == ec = th

\* Faulty variant of FatalCap: one failure late.
FatalCapLate(ec, th) == ec > th + FatalMargin

\* The fatal cap of line 251.
FatalCap(ec, th) == ec >= th + FatalMargin

\* Faulty variant of FetchFail: the failed page is skipped.
FetchFailSkipsPage ==
    /\ pc = "fetch"
    /\ error_count' = error_count + 1
    /\ page' = page + 1
    /\ IF AtThreshold(error_count', error_thold)
       THEN /\ pc' = "reauth"
            /\ streak_reauths' = streak_reauths + 1
            /\ UNCHANGED << store, how, report >>
       ELSE IF FatalCap(error_count', error_thold)
       THEN /\ Close("fatal")
            /\ streak_reauths' = streak_reauths
       ELSE /\ pc' = "loop"
            /\ UNCHANGED << store, how, report, streak_reauths >>
    /\ UNCHANGED << last_id, date, token_type, access_token, ref_token,
                    o_mode, repeat, items, idx, config, cfg_ref, issued, req,
                    run, fetched >>

\* load_data raises (bad status or corrupted body).
FetchFail ==
    /\ pc = "fetch"
    /\ error_count' = error_count + 1
    /\ IF AtThreshold(error_count', error_thold)
       THEN /\ pc' = "reauth"
            /\ streak_reauths' = streak_reauths + 1
            /\ UNCHANGED << store, how, report >>
       ELSE IF FatalCap(error_count', error_thold)
       THEN /\ Close("fatal")
            /\ streak_reauths' = streak_reauths
       ELSE /\ pc' = "loop"
            /\ UNCHANGED << store, how, report, streak_reauths >>
    /\ UNCHANGED << last_id, date, page, token_type, access_token, ref_token,
                    o_mode, repeat, items, idx, config, cfg_ref, issued, req,
                    run, fetched >>

\* refresh_token answers 200 with a new credential (line 246).
ReauthOk ==
    /\ pc = "reauth"
    /\ issued < MaxTokens
    /\ LET c == AssignCredential(<< token_type, access_token, ref_token >>,
                                 IssuedCredential) IN
         /\ token_type' = c[1]
         /\ access_token' = c[2]
         /\ ref_token' = c[3]
    /\ issued' = issued + 1
    /\ pc' = "save1"
    /\ UNCHANGED << last_id, date, page, error_count, o_mode, repeat, items,
                    idx, config, cfg_ref, store, req, report, run, how,
                    streak_reauths, fetched >>

\* refresh_token raises: the break of line 250.
ReauthFail ==
    /\ pc = "reauth"
    /\ UNCHANGED << locals, config, cfg_ref, issued, req, run, streak_reauths, fetched >>
    /\ Close("reauth_failed")

\* ------------------------------------------------------- lines 255-259
\* load_data returns the items p.
FetchOk(p) ==
    /\ pc = "fetch"
    /\ items' = p
    /\ IF p = << >>
       THEN \* items[-1] raises IndexError, which the finally block swallows
            /\ Close("exception")
            /\ UNCHANGED << last_id, repeat, idx, fetched >>
       ELSE IF last_id = p[Len(p)]
       THEN /\ repeat' = TRUE
            /\ pc' = "loop"
            /\ UNCHANGED << last_id, idx, store, how, report, fetched >>
       ELSE /\ last_id' = p[Len(p)]
            /\ idx' = 1
            /\ pc' = "write"
            /\ fetched' = fetched \o [i \in 1 .. Len(p) |-> CsvText(p[i])]
            /\ UNCHANGED << repeat, store, how, report >>
    /\ UNCHANGED << date, page, token_type, access_token, ref_token,
                    error_count, o_mode, config, cfg_ref, issued, req, run,
                    streak_reauths >>

\* ------------------------------------------------------- lines 262-277
\* Faulty variant of NextItem: the page is walked from its end.
NextItemReversed(its, i) == its[Len(its) - i + 1]

\* The item the for loop of line 262 takes at its i-th turn.
NextItem(its, i) == its[i]

\* Faulty variant of WriteRow: the for loop is left at the first record
\* that is not after start_date.
WriteRowStopsAtBoundary ==
    /\ pc = "write"
    /\ LET item == NextItem(items, idx)
           row == [id |-> CsvText(item), time |-> SendTime(item)] IN
         /\ buf' = Append(buf, row)
         /\ appended' = Append(appended, row)
         /\ date' = row.time
    /\ idx' = idx + 1
    /\ IF idx = Len(items) \/ ~Continue(date', start_date)
       THEN /\ repeat' = FALSE
            /\ page' = page + 1
            /\ error_count' = 0
            /\ streak_reauths' = 0
            /\ pc' = "loop"
       ELSE UNCHANGED << repeat, page, error_count, streak_reauths, pc >>
    /\ UNCHANGED << last_id, token_type, access_token, ref_token, o_mode,
                    items, config, cfg_ref, file_exists, file, is_open, issued,
                    req, report, run, how, fetched >>

\* One turn of the for loop: items[idx], the next item, is written; after
\* the last one the page is counted (lines 275-277).
WriteRow ==
    /\ pc = "write"
    /\ LET item == NextItem(items, idx)
           row == [id |-> CsvText(item), time |-> SendTime(item)] IN
         /\ buf' = Append(buf, row)
         /\ appended' = Append(appended, row)
         /\ date' = row.time
    /\ idx' = idx + 1
    /\ IF idx = Len(items)
       THEN /\ repeat' = FALSE
            /\ page' = page + 1
            /\ error_count' = 0
            /\ streak_reauths' = 0
            /\ pc' = "loop"
       ELSE UNCHANGED << repeat, page, error_count, streak_reauths, pc >>
    /\ UNCHANGED << last_id, token_type, access_token, ref_token, o_mode,
                    items, config, cfg_ref, file_exists, file, is_open, issued,
                    req, report, run, how, fetched >>

\* to_datetime (57-78) or a missing key raises on items[idx].
WriteRowRaises ==
    /\ pc = "write"
    /\ UNCHANGED << locals, config, cfg_ref, issued, req, run, streak_reauths, fetched >>
    /\ Close("exception")

\* ------------------------------------------------------- interruption
\* KeyboardInterrupt inside the try statement (line 278).
Interrupt ==
    /\ pc \in InTry
    /\ UNCHANGED << locals, config, cfg_ref, issued, req, run, streak_reauths, fetched >>
    /\ Close("interrupt")

\* KeyboardInterrupt before the try statement: nothing catches it.
InterruptEarly ==
    /\ pc \in {"auth", "save0", "open"}
    /\ pc' = "crashed"
    /\ how' = "interrupt"
    /\ UNCHANGED << locals, config, cfg_ref, store, issued, req, report, run,
                    streak_reauths, fetched >>

\* The file object writes its buffer out when it is full.
Flush ==
    /\ is_open
    /\ buf # << >>
    /\ file' = file \o buf
    /\ buf' = << >>
    /\ UNCHANGED << pc, locals, config, cfg_ref, file_exists, is_open,
                    appended, issued, req, report, run, how, streak_reauths, fetched >>

\* ------------------------------------------------------- main (293-327)
\* The script is run again on the same config.json and destination.
Restart ==
    /\ pc \in {"returned", "crashed"}
    /\ run < MaxRuns
    /\ run' = run + 1
    /\ pc' = "auth"
    /\ last_id' = EmptyId
    /\ date' = Now
    /\ page' = 0
    /\ token_type' = 0
    /\ access_token' = 0
    /\ ref_token' = cfg_ref
    /\ error_count' = 0
    /\ o_mode' = ""
    /\ repeat' = FALSE
    /\ items' = << >>
    /\ idx' = 0
    /\ req' = NoRequest
    /\ report' = "none"
    /\ how' = "none"
    /\ streak_reauths' = 0
    /\ fetched' = << >>
    /\ UNCHANGED << config, cfg_ref, store, issued >>

Next ==
    \/ AuthOk
    \/ AuthFail
    \/ SaveOk
    \/ SaveFail
    \/ OpenStore
    \/ LoopTest
    \/ FetchFail
    \/ ReauthOk
    \/ ReauthFail
    \/ \E p \in ServerPages(req.body) : FetchOk(p)
    \/ WriteRow
    \/ WriteRowRaises
    \/ Interrupt
    \/ InterruptEarly
    \/ Flush
    \/ Restart

Spec == Init /\ [][Next]_vars

\* ================================================================ claims
Last(q) == q[Len(q)]

\* A step in which load_data returned its items (they are items').
FetchReturned ==
    /\ pc = "fetch"
    /\ pc' # "fetch"
    /\ error_count' = error_count
    /\ how' # "interrupt"

\* C1: no record id is appended to the store twice; a failed or stalled
\* fetch writes nothing, and a page is written only when its last record id
\* differs from the cursor's last_seen_id.
C1_NoDuplicateIds ==
    \A i, j \in 1 .. Len(appended) :
        i < j => appended[i].id # appended[j].id

\* C2: a run that starts on a destination holding records seeds the cursor
\* with the id of the last record in the file and page 1, and its first
\* fetch carries {id: that id, tag: symbol}.
C2_ResumeSeedsCursor ==
    (o_mode = "a" /\ page = 1 /\ pc \in {"loop", "fetch", "reauth", "save1"})
        => /\ file # << >>
           /\ CsvText(last_id) = Last(file).id
           /\ pc = "fetch" =>
                req.body = [tag |-> Symbol,
                            id |-> << [ty |-> "str", n |-> Last(file).id] >>]

C2_Witness ==
    /\ pc = "fetch"
    /\ o_mode = "a"
    /\ page = 1
    /\ Len(file) >= 2
    /\ req.body.id # << >>

\* C3: after a successful reauthentication every fetch carries the newly
\* issued token_type and access_token; an older access token is never sent.
C3_FetchUsesNewestToken ==
    pc = "fetch" => /\ req.token_type = issued
                    /\ req.access_token = issued
                    /\ issued >= 1

C3_Witness ==
    /\ pc = "fetch"
    /\ streak_reauths = 1
    /\ error_count >= error_thold
    /\ req.access_token = 2

\* C4: error_count never exceeds error_thold + 5, and when it reaches
\* error_thold + 5 the run has ended: the store is closed and no fetch and
\* no refresh exchange is in flight.
C4_FatalCap ==
    /\ error_count <= error_thold + FatalMargin
    /\ error_count >= error_thold + FatalMargin
         => (pc = "returned" /\ how = "fatal" /\ ~is_open)

C4_Witness ==
    /\ error_count = error_thold + FatalMargin
    /\ pc = "returned"
    /\ how = "fatal"

\* C5: a fetch is issued only while the timestamp of the last record
\* written in the run is after start_date; once a page is persisted whose
\* last record is not after start_date no fetch follows and the run ends by
\* the loop condition.
C5_StopsAtBoundary ==
    /\ pc \in {"fetch", "reauth", "save1"} => date > start_date
    /\ date # Now => (appended # << >> /\ date = Last(appended).time)
    /\ how = "boundary" => (pc = "returned" /\ date <= start_date)

C5_Witness ==
    /\ how = "boundary"
    /\ page >= 2
    /\ date = start_date
    /\ Len(file) >= 2

\* C6: in one streak of failures there is one reauthentication call, made
\* right after the failure that makes error_count equal to error_thold; a
\* page of new content after it resets error_count to 0.
C6_OneReauthPerStreak ==
    /\ [](/\ streak_reauths = (IF error_count >= error_thold THEN 1 ELSE 0)
          /\ pc \in {"reauth", "save1"} => error_count = error_thold)
    /\ [][(pc = "write" /\ pc' = "loop")
            => (error_count' = 0 /\ streak_reauths' = 0)]_vars

C6_Witness ==
    /\ pc = "write"
    /\ streak_reauths = 1
    /\ error_count = error_thold
    /\ access_token = 2

\* C7: a fetch that returns a non-empty page whose last record id equals
\* last_seen_id is a stall: nothing is appended, last_seen_id, page_index
\* and error_count are unchanged, repeat_flag is set and the loop goes on;
\* also on the first fetch after resuming from an existing store.
C7_StallChangesNothing ==
    [][(/\ FetchReturned
        /\ items' # << >>
        /\ CsvText(Last(items')) = CsvText(last_id))
          => /\ pc' = "loop"
             /\ repeat' = TRUE
             /\ UNCHANGED << last_id, page, error_count, file, buf, appended >>]_vars

\* C8: a fetch that returns an empty page is a stall: nothing is written,
\* the cursor and error_count are unchanged and the loop goes on; an empty
\* page never ends the run.
C8_EmptyPageIsStall ==
    [][(FetchReturned /\ items' = << >>)
          => /\ pc' = "loop"
             /\ UNCHANGED << last_id, page, error_count, appended >>]_vars

\* C9: an interruption after the store was opened aborts the loop without
\* using the result of the call in flight, the store is closed, and every
\* record appended before it is in the file at the next open.
C9_InterruptKeepsRecords ==
    /\ [](/\ how = "interrupt"
             => (pc \in {"returned", "crashed"} /\ ~is_open /\ buf = << >>
                 /\ file = appended)
          /\ pc = "open" => file = appended)
    /\ [][(pc \in InTry /\ how' = "interrupt")
            => (pc' = "returned" /\ UNCHANGED << locals, appended >>)]_vars

C9_Witness ==
    /\ pc = "returned"
    /\ how = "interrupt"
    /\ idx = 2
    /\ Len(items) = 2
    /\ Len(file) = 1

\* C10: every exit after the loop was entered emits a terminal report:
\* error-threshold exhaustion when the run ended by the error path, clean
\* completion when it ended by the date boundary.
C10_TerminalReport ==
    (pc = "returned" /\ how \in {"boundary", "reauth_failed", "fatal", "interrupt"})
        => /\ report # "none"
           /\ how \in {"reauth_failed", "fatal"} => report = "error"
           /\ how = "boundary" => report = "clean"

\* C11: when the refresh exchange at entry fails the run ends at once: no
\* fetch is issued, the destination is neither created nor opened nor
\* modified, and config.json's refresh token is not rewritten.
C11_AuthFailureEndsRun ==
    /\ [](how = "auth_failed"
            => (pc = "returned" /\ req = NoRequest /\ ~is_open /\ o_mode = ""
                /\ buf = << >> /\ file = appended))
    /\ [][(pc = "auth" /\ how' = "auth_failed")
            => UNCHANGED << file_exists, file, buf, is_open, cfg_ref, issued >>]_vars

C11_Witness ==
    /\ how = "auth_failed"
    /\ pc = "returned"
    /\ run = 2
    /\ file # << >>

\* C12: opening the store succeeds on every destination a previous run can
\* leave: one holding records is opened in append mode with the last
\* record's id as resume point, any other one (absent, or a header and no
\* record) as a fresh scrape with an empty last_seen_id and page_index 0,
\* and no failure leaves the driver.
C12_OpenNeverFails ==
    [][(pc = "open" /\ pc' # "open" /\ how' # "interrupt")
          => /\ pc' = "loop"
             /\ is_open'
             /\ IF file # << >>
                THEN /\ o_mode' = "a"
                     /\ CsvText(last_id') = Last(file).id
                     /\ page' = 1
                ELSE /\ last_id' = EmptyId
                     /\ page' = 0]_vars

\* C13: whenever a run has ended, for any reason, config.json holds the
\* refresh token the authentication endpoint issued last.
C13_PersistedTokenIsNewest ==
    pc \in {"returned", "crashed"} => cfg_ref = issued

\* The ids of the rows q, in order.
Ids(q) == [i \in 1 .. Len(q) |-> q[i].id]

\* C14 as stated: on a fresh store, at termination the store's records are
\* the concatenation, in arrival order, of every page fetched with new
\* content, each record once, and the last record is the last item of the
\* final page.  (Stated for the runs in which no exception was raised.)
C14_StoreIsAllPages ==
    (pc = "returned" /\ o_mode = "w" /\ how # "exception")
        => /\ Ids(file) = fetched
           /\ fetched # << >> => Last(file).id = CsvText(last_id)

\* C14 as amended: on a fresh store the records written are always a prefix
\* of that concatenation, each record once and in the order the endpoint
\* returned them; when the run ends by the date boundary, by a failed
\* reauthentication or by the fatal cap the store holds the whole of it and
\* its last record is the last item of the final page.
C14_StoreIsPagesWritten ==
    o_mode = "w"
        => /\ Len(appended) <= Len(fetched)
           /\ Ids(appended) = SubSeq(fetched, 1, Len(appended))
           /\ \A i, j \in 1 .. Len(fetched) : i < j => fetched[i] # fetched[j]
           /\ pc = "returned" => file = appended
           /\ (pc = "returned" /\ how \in {"boundary", "reauth_failed", "fatal"})
                => /\ Ids(file) = fetched
                   /\ fetched # << >> => Last(file).id = CsvText(last_id)

C14_Witness ==
    /\ pc = "returned"
    /\ how = "boundary"
    /\ o_mode = "w"
    /\ page = 2
    /\ Ids(file) = << 3, 2, 1 >>

\* C15: on a restart with records in the store the newest seen timestamp is
\* the timestamp of the last stored record, not the wall-clock time, so a
\* run restarted on a store whose last record is not after start_date
\* fetches nothing.
C15_ResumeRebuildsTimestamp ==
    (o_mode = "a" /\ page = 1 /\ pc \in {"loop", "fetch", "reauth", "save1"})
        => /\ date = Last(file).time
           /\ pc = "fetch" => Last(file).time > start_date

\* A step in which load_data raised.
FetchRaised == pc = "fetch" /\ error_count' = error_count + 1

\* C16: a failed fetch changes only error_count and, at the threshold, the
\* credential: last_seen_id, page_index, the newest seen timestamp and the
\* store's contents are unchanged, and the next fetch carries the same
\* cursor as the failed one.
C16_FailureKeepsCursor ==
    /\ [][(FetchRaised \/ pc \in {"reauth", "save1"})
            => /\ UNCHANGED << last_id, page, date, appended, repeat, items >>
               /\ file' \o buf' = file \o buf]_vars
    /\ [][(pc = "loop" /\ pc' = "fetch" /\ error_count > 0)
            => req'.body = req.body]_vars
    /\ [](pc = "fetch"
            => req.body.id = IF page < 1 THEN << >> ELSE << Str(last_id) >>)

C16_Witness ==
    /\ pc = "fetch"
    /\ error_count = error_thold + 1
    /\ page = 1
    /\ req.body.id # << >>
    /\ req.access_token = 2

\* A step in which load_data returned a page whose last record id is
\* last_seen_id.
Stalled ==
    /\ FetchReturned
    /\ items' # << >>
    /\ CsvText(Last(items')) = CsvText(last_id)

\* C17: stalls are not counted: while the pages returned end with
\* last_seen_id the loop goes on with the same timestamp and error_count
\* and issues the same fetch again; a run whose last fetch stalled never
\* ends by the loop condition, only by an interruption or by the error caps.
C17_StallsAreUnbounded ==
    /\ [][Stalled
            => /\ pc' = "loop"
               /\ Continue(date', start_date)
               /\ UNCHANGED << date, streak_reauths >>]_vars
    /\ [][(pc = "loop" /\ repeat /\ pc' # "loop")
            => \/ pc' = "fetch" /\ req'.body = req.body
               \/ how' = "interrupt"]_vars
    /\ [](how = "boundary" => ~repeat)

\* The page whose last row has just been written ends with the id of the
\* row that was last in the store before it.
WrotePageAlreadySeen ==
    /\ pc = "write"
    /\ pc' = "loop"
    /\ Len(appended') > Len(items)
    /\ appended'[Len(appended') - Len(items)].id = CsvText(Last(items))

\* C18: error_count goes back to 0 only when a page of new content has been
\* fetched and written; a stall and a successful reauthentication leave it,
\* so failures add up across stalls, and 0 <= error_count <= error_thold + 5
\* always.
C18_ErrorCountResets ==
    /\ [](error_count >= 0 /\ error_count <= error_thold + FatalMargin)
    /\ [][\/ error_count' = error_count
          \/ FetchRaised
          \/ error_count' = 0 /\ pc = "write" /\ pc' = "loop"
                              /\ ~WrotePageAlreadySeen
          \/ error_count' = 0 /\ run' = run + 1]_vars

\* C19: an exception, other than a fetch failure, raised inside the try
\* statement ends the run as an interruption does: the loop is left, the
\* file is closed with the rows written before the faulty record in it, and
\* nothing leaves scrape_sahamyab; last_id is already the page's last id,
\* which is not in the store, so the rest of the page is reached only by a
\* resume from the last row written.
C19_ExceptionEndsRunQuietly ==
    /\ [][(pc \in InTry /\ how' = "exception")
            => /\ pc' = "returned"
               /\ ~is_open'
               /\ buf' = << >>
               /\ file' = appended
               /\ UNCHANGED << last_id, page, date, error_count >>]_vars
    /\ []((how = "exception" /\ items # << >>)
            => /\ idx \in 1 .. Len(items)
               /\ last_id = Last(items)
               /\ Len(file) >= idx - 1
               /\ \A k \in 1 .. idx - 1 :
                     file[Len(file) - (idx - 1) + k].id = CsvText(items[k]))

C19_Witness ==
    /\ how = "exception"
    /\ pc = "returned"
    /\ idx = 2
    /\ Len(items) = 2
    /\ o_mode = "a"
    /\ Last(file).id = CsvText(items[1])

\* C20: the date boundary is tested between pages only: the for loop is
\* left only after the last item of the page, or by an interruption or an
\* exception, so every record of a page is appended, also those at or
\* before start_date; and a run that reaches the loop with now() after
\* start_date issues a fetch.
C20_BoundaryBetweenPages ==
    /\ [][(pc = "write" /\ pc' # "write")
            => \/ how' \in {"interrupt", "exception"}
               \/ /\ pc' = "loop"
                  /\ idx = Len(items)
                  /\ Len(appended') >= Len(items)
                  /\ \A k \in 1 .. Len(items) :
                        appended'[Len(appended') - Len(items) + k].id
                            = CsvText(items[k])]_vars
    /\ [](how = "boundary" => req # NoRequest)

C20_Witness ==
    /\ pc = "write"
    /\ idx = 2
    /\ Len(items) = 2
    /\ date <= start_date

====
